---------------------------- MODULE Spec2Model ----------------------------
(***************************************************************************)
(* A model of src/src/sat.py: the three search strategies of SatSolver     *)
(* (sat_bruteforce, sat_backtracking, sat_bestcase) over one CNF instance. *)
(*                                                                         *)
(* A behaviour fixes an instance (n_vars, clauses), calls one strategy and *)
(* runs its recursion to the end.  The recursion is an explicit stack of   *)
(* frames; one action is one visit of a frame (the code between two        *)
(* recursive calls or returns).  A Python dict is a function whose DOMAIN  *)
(* is the dict's key set; a list is a sequence.                            *)
(***************************************************************************)
EXTENDS Integers, Sequences, FiniteSets

VARIABLES
    n_vars,           \* argument n_vars of the call
    clauses,          \* argument clauses of the call: a list of lists of literals
    call,             \* the strategy being run: "none" before the call
    stack,            \* the recursion: one frame per active dfs / backtrack call
    assignment,       \* the dict the recursion shares (res in sat_bruteforce)
    ret,              \* the value the last finished recursive call returned
    best_assignment,  \* sat_bestcase: nonlocal best_assignment
    best_score,       \* sat_bestcase: nonlocal best_score
    solution,         \* sat_bestcase: nonlocal solution
    candidates,       \* history: the filled candidates record_candidate scored, in order
    leaves,           \* history: the number of evaluate_res calls of sat_bruteforce
    result            \* what the strategy returned (or raised)

vars == <<n_vars, clauses, call, stack, assignment, ret, best_assignment,
          best_score, solution, candidates, leaves, result>>

---------------------------------------------------------------------------
(* Bounds of the instances explored. *)

MaxVars == 2

MaxClauses == 2

MaxLits == 2

---------------------------------------------------------------------------
(* Values. *)

\* The empty dict {}.
EmptyDict == <<>>

\* Python's None for next_var (variables are numbered from 1).
None == 0

\* No value returned yet.
NoValue == [kind |-> "none", sat |-> FALSE, assignment |-> EmptyDict]

\* A returned tuple (sat, assignment).
Returned(sat, a) == [kind |-> "ok", sat |-> sat, assignment |-> a]

\* A KeyError raised by a dict lookup and propagating out of the call.
KeyError == [kind |-> "KeyError", sat |-> FALSE, assignment |-> EmptyDict]

\* solution = None
NoSolution == [is_none |-> TRUE, value |-> EmptyDict]

Abs(x) == IF x < 0 THEN -x ELSE x

\* d[k] = v on a dict
dict_set(d, k, v) == [x \in (DOMAIN d) \cup {k} |-> IF x = k THEN v ELSE d[x]]

\* del d[k], with no deletion (a faulty variant of dict_del)
dict_del_kept(d, k) == d

\* del d[k] on a dict (k is a key of d wherever the code deletes)
dict_del(d, k) == [x \in (DOMAIN d) \ {k} |-> d[x]]

---------------------------------------------------------------------------
(* The instances.  On a well-formed instance a clause is read only through *)
(* "some literal of it is true" and "some literal of it is unassigned",    *)
(* and the clause list only through "some clause", "every clause" and "how *)
(* many clauses", so the instances explored are one list per multiset of   *)
(* clauses and one list of literals per set of literals: literals          *)
(* ascending inside a clause, clauses ascending by ClauseCode.  The        *)
(* malformed instances explored are the lists of the same shape.           *)

\* The literals of a well-formed instance over n variables.
Lits(n) == (-n .. n) \ {0}

\* The literals of any instance: also 0 and variable n + 1.
AnyLits(n) == -(n + 1) .. (n + 1)

RECURSIVE Pow2(_)
Pow2(k) == IF k = 0 THEN 1 ELSE 2 * Pow2(k - 1)

RECURSIVE ClauseCodeFrom(_, _)
ClauseCodeFrom(c, i) ==
    IF i > Len(c) THEN 0
    ELSE Pow2(c[i] + MaxVars + 1) + ClauseCodeFrom(c, i + 1)

\* A number that orders the clauses (one bit per literal).
ClauseCode(c) == ClauseCodeFrom(c, 1)

ClausesOver(L) ==
    UNION { { c \in [1 .. k -> L] : \A i \in 1 .. (k - 1) : c[i] < c[i + 1] }
            : k \in 0 .. MaxLits }

ClauseListsOver(L) ==
    UNION { { cs \in [1 .. k -> ClausesOver(L)] :
                \A i \in 1 .. (k - 1) : ClauseCode(cs[i]) <= ClauseCode(cs[i + 1]) }
            : k \in 0 .. MaxClauses }

\* Every literal is nonzero with absolute value <= n.
WellFormed(n, cs) ==
    \A i \in 1 .. Len(cs) : \A j \in 1 .. Len(cs[i]) :
        cs[i][j] # 0 /\ Abs(cs[i][j]) <= n

---------------------------------------------------------------------------
(* Frames of the recursion.                                                *)
(*   pc    "enter": the call has just been entered                         *)
(*         "callT" / "callF": waiting for the recursive call made with the *)
(*                  variable set to True / False                           *)
(*         "undoT" / "undoF": the key was deleted after that call failed   *)
(*   var   dfs: var_index; backtrack: next_var once chosen                 *)
(*   entry history: the shared dict as it was when the call was entered    *)

Frame(pc, var, entry) == [pc |-> pc, var |-> var, entry |-> entry]

Top == stack[Len(stack)]

Pop == SubSeq(stack, 1, Len(stack) - 1)

\* The stack with its top frame replaced by f and a fresh frame pushed on it.
Recurse(f, callee) == Append(Append(Pop, f), callee)

Running(m) == call = m /\ result = NoValue

AtEnter(m) == Running(m) /\ stack # <<>> /\ Top.pc = "enter"

\* The recursive call made from the top frame has returned.
ChildReturned(m) ==
    Running(m) /\ stack # <<>> /\ Top.pc \in {"callT", "callF"} /\ ret # NoValue

---------------------------------------------------------------------------
(* Init: an instance, no call made yet. *)

InitCall ==
    /\ call = "none"
    /\ stack = <<>>
    /\ assignment = EmptyDict
    /\ ret = NoValue
    /\ best_assignment = EmptyDict
    /\ best_score = -1
    /\ solution = NoSolution
    /\ candidates = <<>>
    /\ leaves = 0
    /\ result = NoValue

\* Well-formed instances.
Init ==
    /\ n_vars \in 0 .. MaxVars
    /\ clauses \in ClauseListsOver(Lits(n_vars))
    /\ InitCall

\* Instances with at least one malformed literal.
InitMalformed ==
    /\ n_vars \in 0 .. MaxVars
    /\ clauses \in { cs \in ClauseListsOver(AnyLits(n_vars)) : ~WellFormed(n_vars, cs) }
    /\ InitCall

Instance == <<n_vars, clauses>>

BestcaseState == <<best_assignment, best_score, solution, candidates>>

---------------------------------------------------------------------------
(* sat_bruteforce *)

\* The literals of clause from index j on, as evaluate_res's inner loop
\* reads them: "sat" at the first true literal (break), "KeyError" at the
\* first literal whose variable is no key of the dict, "unsat" at the end.
RECURSIVE bf_eval_literals(_, _, _)
bf_eval_literals(clause, j, a) ==
    IF j > Len(clause) THEN "unsat"
    ELSE LET literal == clause[j]
             var == Abs(literal)
         IN  IF var \notin DOMAIN a THEN "KeyError"
             ELSE IF (literal > 0 /\ a[var]) \/ (literal < 0 /\ ~a[var]) THEN "sat"
             ELSE bf_eval_literals(clause, j + 1, a)

\* evaluate_res from clause i on.
RECURSIVE bf_evaluate_from(_, _)
bf_evaluate_from(i, a) ==
    IF i > Len(clauses) THEN Returned(TRUE, a)
    ELSE LET r == bf_eval_literals(clauses[i], 1, a)
         IN  IF r = "KeyError" THEN KeyError
             ELSE IF r = "unsat" THEN Returned(FALSE, EmptyDict)
             ELSE bf_evaluate_from(i + 1, a)

evaluate_res(a) == bf_evaluate_from(1, a)

\* dfs's base case one level too deep (a faulty variant of bf_base_case)
bf_base_case_deeper(var_index) == var_index > n_vars + 1

\* dfs: if var_index > n_vars
bf_base_case(var_index) == var_index > n_vars

\* dfs trying True first (a faulty variant of bf_values)
bf_values_true_first == <<TRUE, FALSE>>

\* dfs: the values tried at a position, in order ("Try False", "Try True")
bf_values == <<FALSE, TRUE>>

\* return dfs(1)
SolveBruteforce ==
    /\ call = "none"
    /\ call' = "sat_bruteforce"
    /\ assignment' = EmptyDict
    /\ stack' = <<Frame("enter", 1, EmptyDict)>>
    /\ UNCHANGED <<Instance, ret, BestcaseState, leaves, result>>

\* dfs at a full assignment: return evaluate_res(res); a KeyError raised
\* there leaves every dfs frame at once.
BfLeaf ==
    /\ AtEnter("sat_bruteforce")
    /\ bf_base_case(Top.var)
    /\ LET r == evaluate_res(assignment)
       IN  /\ ret' = r
           /\ stack' = IF r = KeyError THEN <<>> ELSE Pop
    /\ leaves' = leaves + 1
    /\ UNCHANGED <<Instance, call, assignment, BestcaseState, result>>

\* dfs: res[var_index] = False; dfs(var_index + 1)
BfTryFirst ==
    /\ AtEnter("sat_bruteforce")
    /\ ~bf_base_case(Top.var)
    /\ assignment' = dict_set(assignment, Top.var, bf_values[1])
    /\ stack' = Recurse(Frame(IF bf_values[1] THEN "callT" ELSE "callF", Top.var, Top.entry),
                        Frame("enter", Top.var + 1, EmptyDict))
    /\ ret' = NoValue
    /\ UNCHANGED <<Instance, call, BestcaseState, leaves, result>>

\* dfs: if ok: return True, sol (after either recursive call)
BfReturnOk ==
    /\ ChildReturned("sat_bruteforce")
    /\ ret.sat
    /\ stack' = Pop
    /\ UNCHANGED <<Instance, call, assignment, ret, BestcaseState, leaves, result>>

\* dfs: the first value failed: res[var_index] = True; dfs(var_index + 1)
BfTrySecond ==
    /\ ChildReturned("sat_bruteforce")
    /\ ~ret.sat
    /\ Top.pc = (IF bf_values[1] THEN "callT" ELSE "callF")
    /\ assignment' = dict_set(assignment, Top.var, bf_values[2])
    /\ stack' = Recurse(Frame(IF bf_values[2] THEN "callT" ELSE "callF", Top.var, Top.entry),
                        Frame("enter", Top.var + 1, EmptyDict))
    /\ ret' = NoValue
    /\ UNCHANGED <<Instance, call, BestcaseState, leaves, result>>

\* dfs: both values failed: return False, {}
BfExhausted ==
    /\ ChildReturned("sat_bruteforce")
    /\ ~ret.sat
    /\ Top.pc = (IF bf_values[2] THEN "callT" ELSE "callF")
    /\ stack' = Pop
    /\ ret' = Returned(FALSE, EmptyDict)
    /\ UNCHANGED <<Instance, call, assignment, BestcaseState, leaves, result>>

\* sat_bruteforce returns what dfs(1) returned, or the KeyError goes on to
\* the caller.
BfFinish ==
    /\ Running("sat_bruteforce")
    /\ stack = <<>>
    /\ ret # NoValue
    /\ result' = ret
    /\ UNCHANGED <<Instance, call, stack, assignment, ret, BestcaseState, leaves>>

---------------------------------------------------------------------------
(* sat_backtracking *)

\* eval_clause from literal j on: TRUE at the first assigned literal that is
\* true; at the end "None" if has_unassigned (some literal's variable was no
\* key of the dict), else FALSE.
RECURSIVE bt_eval_literals(_, _, _, _)
bt_eval_literals(clause, j, a, has_unassigned) ==
    IF j > Len(clause)
    THEN (IF has_unassigned THEN "None" ELSE "False")
    ELSE LET lit == clause[j]
             var == Abs(lit)
         IN  IF var \in DOMAIN a
             THEN (IF (lit > 0 /\ a[var]) \/ (lit < 0 /\ ~a[var])
                   THEN "True"
                   ELSE bt_eval_literals(clause, j + 1, a, has_unassigned))
             ELSE bt_eval_literals(clause, j + 1, a, TRUE)

\* eval_clause(clause, assignment): "True", "False" or "None"
bt_eval_clause(clause, a) == bt_eval_literals(clause, 1, a, FALSE)

\* has_conflict taking an undetermined clause for a conflict (a faulty
\* variant of bt_has_conflict)
bt_has_conflict_eager(a) ==
    \E i \in 1 .. Len(clauses) : bt_eval_clause(clauses[i], a) # "True"

\* has_conflict(assignment): some clause evaluates to False
bt_has_conflict(a) ==
    \E i \in 1 .. Len(clauses) : bt_eval_clause(clauses[i], a) = "False"

\* all_clauses_satisfied letting an undetermined clause pass (a faulty
\* variant of bt_all_clauses_satisfied)
bt_all_clauses_satisfied_lax(a) ==
    \A i \in 1 .. Len(clauses) : bt_eval_clause(clauses[i], a) # "False"

\* all_clauses_satisfied(assignment): no clauses, or every clause is True
bt_all_clauses_satisfied(a) ==
    \/ clauses = <<>>
    \/ \A i \in 1 .. Len(clauses) : bt_eval_clause(clauses[i], a) = "True"

\* full_assign: the copy with every missing variable set to False
bt_full_assign(a) ==
    [v \in (DOMAIN a) \cup (1 .. n_vars) |-> IF v \in DOMAIN a THEN a[v] ELSE FALSE]

\* next_var: the lowest variable of 1..n_vars that is no key, or None
bt_next_var(a) ==
    IF \E v \in 1 .. n_vars : v \notin DOMAIN a
    THEN CHOOSE v \in 1 .. n_vars :
            /\ v \notin DOMAIN a
            /\ \A w \in 1 .. (v - 1) : w \in DOMAIN a
    ELSE None

\* the loop "for value in (True, False)"
bt_values == <<TRUE, FALSE>>

PcCall(value) == IF value THEN "callT" ELSE "callF"

PcUndo(value) == IF value THEN "undoT" ELSE "undoF"

\* sat, sol = backtrack({})
SolveBacktracking ==
    /\ call = "none"
    /\ call' = "sat_backtracking"
    /\ assignment' = EmptyDict
    /\ stack' = <<Frame("enter", None, EmptyDict)>>
    /\ UNCHANGED <<Instance, ret, BestcaseState, leaves, result>>

\* backtrack: return False, {} on a conflict, or when no clause conflicts,
\* not all are satisfied and no variable is left ("Brach fails")
BtDeadEnd ==
    /\ AtEnter("sat_backtracking")
    /\ \/ bt_has_conflict(assignment)
       \/ /\ ~bt_all_clauses_satisfied(assignment)
          /\ bt_next_var(assignment) = None
    /\ stack' = Pop
    /\ ret' = Returned(FALSE, EmptyDict)
    /\ UNCHANGED <<Instance, call, assignment, BestcaseState, leaves, result>>

\* backtrack: all clauses satisfied: return True, full_assign
BtSolved ==
    /\ AtEnter("sat_backtracking")
    /\ ~bt_has_conflict(assignment)
    /\ bt_all_clauses_satisfied(assignment)
    /\ stack' = Pop
    /\ ret' = Returned(TRUE, bt_full_assign(assignment))
    /\ UNCHANGED <<Instance, call, assignment, BestcaseState, leaves, result>>

\* backtrack: choose next_var, assignment[next_var] = True, recurse
BtTryFirst ==
    /\ AtEnter("sat_backtracking")
    /\ ~bt_has_conflict(assignment)
    /\ ~bt_all_clauses_satisfied(assignment)
    /\ bt_next_var(assignment) # None
    /\ LET next_var == bt_next_var(assignment)
       IN  /\ assignment' = dict_set(assignment, next_var, bt_values[1])
           /\ stack' = Recurse(Frame(PcCall(bt_values[1]), next_var, Top.entry),
                               Frame("enter", None, assignment'))
    /\ ret' = NoValue
    /\ UNCHANGED <<Instance, call, BestcaseState, leaves, result>>

\* backtrack: if sat: return True, sol
BtReturnSat ==
    /\ ChildReturned("sat_backtracking")
    /\ ret.sat
    /\ stack' = Pop
    /\ UNCHANGED <<Instance, call, assignment, ret, BestcaseState, leaves, result>>

\* backtrack: the recursive call failed: del assignment[next_var]
BtUndo ==
    /\ ChildReturned("sat_backtracking")
    /\ ~ret.sat
    /\ assignment' = dict_del(assignment, Top.var)
    /\ stack' = Append(Pop, Frame(PcUndo(Top.pc = "callT"), Top.var, Top.entry))
    /\ UNCHANGED <<Instance, call, ret, BestcaseState, leaves, result>>

\* backtrack: second iteration of the loop: assignment[next_var] = False, recurse
BtTrySecond ==
    /\ Running("sat_backtracking")
    /\ stack # <<>>
    /\ Top.pc = PcUndo(bt_values[1])
    /\ assignment' = dict_set(assignment, Top.var, bt_values[2])
    /\ stack' = Recurse(Frame(PcCall(bt_values[2]), Top.var, Top.entry),
                        Frame("enter", None, assignment'))
    /\ ret' = NoValue
    /\ UNCHANGED <<Instance, call, BestcaseState, leaves, result>>

\* backtrack: the loop is over: return False, {}
BtExhausted ==
    /\ Running("sat_backtracking")
    /\ stack # <<>>
    /\ Top.pc = PcUndo(bt_values[2])
    /\ stack' = Pop
    /\ ret' = Returned(FALSE, EmptyDict)
    /\ UNCHANGED <<Instance, call, assignment, BestcaseState, leaves, result>>

\* sat_backtracking: if sat: return True, sol; else: return False, {}
BtFinish ==
    /\ Running("sat_backtracking")
    /\ stack = <<>>
    /\ ret # NoValue
    /\ result' = IF ret.sat THEN Returned(TRUE, ret.assignment)
                 ELSE Returned(FALSE, EmptyDict)
    /\ UNCHANGED <<Instance, call, stack, assignment, ret, BestcaseState, leaves>>

---------------------------------------------------------------------------
(* sat_bestcase *)

\* eval_clause of sat_bestcase, from literal j on (its own copy of the code)
RECURSIVE bc_eval_literals(_, _, _, _)
bc_eval_literals(clause, j, a, has_unassigned) ==
    IF j > Len(clause)
    THEN (IF has_unassigned THEN "None" ELSE "False")
    ELSE LET lit == clause[j]
             var == Abs(lit)
         IN  IF var \in DOMAIN a
             THEN (IF (lit > 0 /\ a[var]) \/ (lit < 0 /\ ~a[var])
                   THEN "True"
                   ELSE bc_eval_literals(clause, j + 1, a, has_unassigned))
             ELSE bc_eval_literals(clause, j + 1, a, TRUE)

\* eval_clause(clause, assignment): "True", "False" or "None"
bc_eval_clause(clause, a) == bc_eval_literals(clause, 1, a, FALSE)

\* has_conflict(assignment)
bc_has_conflict(a) ==
    \E i \in 1 .. Len(clauses) : bc_eval_clause(clauses[i], a) = "False"

\* all_clauses_satisfied(assignment)
bc_all_clauses_satisfied(a) ==
    \/ clauses = <<>>
    \/ \A i \in 1 .. Len(clauses) : bc_eval_clause(clauses[i], a) = "True"

\* fill_assignment filling with True (a faulty variant of fill_assignment)
fill_assignment_true(a) ==
    [v \in 1 .. n_vars |-> IF v \in DOMAIN a THEN a[v] ELSE TRUE]

\* fill_assignment(assignment): {v: assignment.get(v, False) for v in 1..n_vars}
fill_assignment(a) ==
    [v \in 1 .. n_vars |-> IF v \in DOMAIN a THEN a[v] ELSE FALSE]

\* count_satisfied(assignment): the number of clauses that evaluate to True
count_satisfied(a) ==
    Cardinality({ i \in 1 .. Len(clauses) : bc_eval_clause(clauses[i], a) = "True" })

\* record_candidate replacing the best on a tie (a faulty variant of record_candidate)
record_candidate_on_tie(candidate) ==
    LET filled == fill_assignment(candidate)
        score == count_satisfied(filled)
    IN  IF score >= best_score
        THEN [best_assignment |-> filled, best_score |-> score]
        ELSE [best_assignment |-> best_assignment, best_score |-> best_score]

\* record_candidate(candidate): the values of best_assignment and best_score
\* after the call
record_candidate(candidate) ==
    LET filled == fill_assignment(candidate)
        score == count_satisfied(filled)
    IN  IF score > best_score
        THEN [best_assignment |-> filled, best_score |-> score]
        ELSE [best_assignment |-> best_assignment, best_score |-> best_score]

\* next_var of sat_bestcase's backtrack
bc_next_var(a) ==
    IF \E v \in 1 .. n_vars : v \notin DOMAIN a
    THEN CHOOSE v \in 1 .. n_vars :
            /\ v \notin DOMAIN a
            /\ \A w \in 1 .. (v - 1) : w \in DOMAIN a
    ELSE None

\* the loop with False tried first (a faulty variant of bc_values)
bc_values_false_first == <<FALSE, TRUE>>

\* the loop "for value in (True, False)" of sat_bestcase's backtrack
bc_values == <<TRUE, FALSE>>

\* best_assignment = {}; best_score = -1; solution = None; found = backtrack({})
SolveBestcase ==
    /\ call = "none"
    /\ call' = "sat_bestcase"
    /\ best_assignment' = EmptyDict
    /\ best_score' = -1
    /\ solution' = NoSolution
    /\ assignment' = EmptyDict
    /\ stack' = <<Frame("enter", None, EmptyDict)>>
    /\ UNCHANGED <<Instance, ret, candidates, leaves, result>>

\* backtrack: record_candidate(assignment); return False -- on a conflict,
\* or else (not all satisfied) when len(assignment) == n_vars or next_var is
\* None
BcDeadEnd ==
    /\ AtEnter("sat_bestcase")
    /\ \/ bc_has_conflict(assignment)
       \/ /\ ~bc_all_clauses_satisfied(assignment)
          /\ \/ Cardinality(DOMAIN assignment) = n_vars
             \/ bc_next_var(assignment) = None
    /\ LET r == record_candidate(assignment)
       IN  /\ best_assignment' = r.best_assignment
           /\ best_score' = r.best_score
    /\ candidates' = Append(candidates, fill_assignment(assignment))
    /\ stack' = Pop
    /\ ret' = Returned(FALSE, EmptyDict)
    /\ UNCHANGED <<Instance, call, assignment, solution, leaves, result>>

\* backtrack: all clauses satisfied: solved = fill_assignment(assignment);
\* best_assignment = solved.copy(); best_score = len(clauses);
\* solution = solved; return True
BcSolved ==
    /\ AtEnter("sat_bestcase")
    /\ ~bc_has_conflict(assignment)
    /\ bc_all_clauses_satisfied(assignment)
    /\ LET solved == fill_assignment(assignment)
       IN  /\ best_assignment' = solved
           /\ best_score' = Len(clauses)
           /\ solution' = [is_none |-> FALSE, value |-> solved]
    /\ stack' = Pop
    /\ ret' = Returned(TRUE, EmptyDict)
    /\ UNCHANGED <<Instance, call, assignment, candidates, leaves, result>>

\* backtrack: choose next_var, assignment[next_var] = True, recurse
BcTryFirst ==
    /\ AtEnter("sat_bestcase")
    /\ ~bc_has_conflict(assignment)
    /\ ~bc_all_clauses_satisfied(assignment)
    /\ Cardinality(DOMAIN assignment) # n_vars
    /\ bc_next_var(assignment) # None
    /\ LET next_var == bc_next_var(assignment)
       IN  /\ assignment' = dict_set(assignment, next_var, bc_values[1])
           /\ stack' = Recurse(Frame(PcCall(bc_values[1]), next_var, Top.entry),
                               Frame("enter", None, assignment'))
    /\ ret' = NoValue
    /\ UNCHANGED <<Instance, call, BestcaseState, leaves, result>>

\* backtrack: if backtrack(assignment): return True
BcReturnFound ==
    /\ ChildReturned("sat_bestcase")
    /\ ret.sat
    /\ stack' = Pop
    /\ UNCHANGED <<Instance, call, assignment, ret, BestcaseState, leaves, result>>

\* backtrack: the recursive call failed: del assignment[next_var]
BcUndo ==
    /\ ChildReturned("sat_bestcase")
    /\ ~ret.sat
    /\ assignment' = dict_del(assignment, Top.var)
    /\ stack' = Append(Pop, Frame(PcUndo(Top.pc = "callT"), Top.var, Top.entry))
    /\ UNCHANGED <<Instance, call, ret, BestcaseState, leaves, result>>

\* backtrack: second iteration of the loop: assignment[next_var] = False, recurse
BcTrySecond ==
    /\ Running("sat_bestcase")
    /\ stack # <<>>
    /\ Top.pc = PcUndo(bc_values[1])
    /\ assignment' = dict_set(assignment, Top.var, bc_values[2])
    /\ stack' = Recurse(Frame(PcCall(bc_values[2]), Top.var, Top.entry),
                        Frame("enter", None, assignment'))
    /\ ret' = NoValue
    /\ UNCHANGED <<Instance, call, BestcaseState, leaves, result>>

\* backtrack: the loop is over: return False
BcExhausted ==
    /\ Running("sat_bestcase")
    /\ stack # <<>>
    /\ Top.pc = PcUndo(bc_values[2])
    /\ stack' = Pop
    /\ ret' = Returned(FALSE, EmptyDict)
    /\ UNCHANGED <<Instance, call, assignment, BestcaseState, leaves, result>>

\* sat_bestcase: if found and solution is not None: return True, solution;
\* if not best_assignment: best_assignment = all False;
\* return False, best_assignment
BcFinish ==
    /\ Running("sat_bestcase")
    /\ stack = <<>>
    /\ ret # NoValue
    /\ IF ret.sat /\ ~solution.is_none
       THEN /\ result' = Returned(TRUE, solution.value)
            /\ UNCHANGED best_assignment
       ELSE /\ best_assignment' = IF best_assignment = EmptyDict
                                  THEN [v \in 1 .. n_vars |-> FALSE]
                                  ELSE best_assignment
            /\ result' = Returned(FALSE, best_assignment')
    /\ UNCHANGED <<Instance, call, stack, assignment, ret, best_score, solution,
                   candidates, leaves>>

---------------------------------------------------------------------------
Next ==
    \/ SolveBruteforce
    \/ BfLeaf
    \/ BfTryFirst
    \/ BfReturnOk
    \/ BfTrySecond
    \/ BfExhausted
    \/ BfFinish
    \/ SolveBacktracking
    \/ BtDeadEnd
    \/ BtSolved
    \/ BtTryFirst
    \/ BtReturnSat
    \/ BtUndo
    \/ BtTrySecond
    \/ BtExhausted
    \/ BtFinish
    \/ SolveBestcase
    \/ BcDeadEnd
    \/ BcSolved
    \/ BcTryFirst
    \/ BcReturnFound
    \/ BcUndo
    \/ BcTrySecond
    \/ BcExhausted
    \/ BcFinish

\* Well-formed instances.
Spec == Init /\ [][Next]_vars

\* Well-formed instances; a call that can take a step does (the code is one
\* thread running to completion).
FairSpec == Init /\ [][Next]_vars /\ WF_vars(Next)

\* Malformed instances.
SpecMalformed == InitMalformed /\ [][Next]_vars

---------------------------------------------------------------------------
(* What the properties are stated with: the meaning of a CNF instance,     *)
(* defined from the instance alone.                                        *)

Strategies == {"sat_bruteforce", "sat_backtracking", "sat_bestcase"}

\* Strategy m has returned (or raised).
Done(m) == call = m /\ result # NoValue

\* The total assignments over 1..n_vars.
Total == [1 .. n_vars -> BOOLEAN]

LitHolds(lit, A) == (lit > 0 /\ A[Abs(lit)]) \/ (lit < 0 /\ ~A[Abs(lit)])

ClauseHolds(c, A) == \E j \in 1 .. Len(c) : LitHolds(c[j], A)

Satisfies(A) == \A i \in 1 .. Len(clauses) : ClauseHolds(clauses[i], A)

Satisfiable == \E A \in Total : Satisfies(A)

Score(A) == Cardinality({ i \in 1 .. Len(clauses) : ClauseHolds(clauses[i], A) })

MaxScore ==
    CHOOSE s \in 0 .. Len(clauses) :
        /\ \E A \in Total : Score(A) = s
        /\ \A A \in Total : Score(A) <= s

AllFalse == [v \in 1 .. n_vars |-> FALSE]

IsTotal(a) == DOMAIN a = 1 .. n_vars

\* A before B when variable 1 is compared first and False comes before True.
LexLeq(A, B) ==
    \/ A = B
    \/ \E k \in 1 .. n_vars :
        /\ \A i \in 1 .. (k - 1) : A[i] = B[i]
        /\ ~A[k]
        /\ B[k]

\* The partial assignments a depth-first search over variables 1, 2, ...
\* can hold: values for the variables 1..k.
Partials == UNION { [1 .. k -> BOOLEAN] : k \in 0 .. n_vars }

\* Every clause is definitely true under P: it has a true literal among the
\* assigned ones.
DefinitelyTrue(P) ==
    \A i \in 1 .. Len(clauses) :
        \E j \in 1 .. Len(clauses[i]) :
            Abs(clauses[i][j]) <= Len(P) /\ LitHolds(clauses[i][j], P)

\* P is visited before Q by a depth-first search that tries True before
\* False: P is a proper prefix of Q, or at the first variable where they
\* differ P has True.
DfsBefore(P, Q) ==
    \/ /\ Len(P) < Len(Q)
       /\ \A i \in 1 .. Len(P) : P[i] = Q[i]
    \/ \E k \in 1 .. n_vars :
        /\ k <= Len(P)
        /\ k <= Len(Q)
        /\ \A i \in 1 .. (k - 1) : P[i] = Q[i]
        /\ P[k]
        /\ ~Q[k]

FirstSatisfiedPartial ==
    CHOOSE P \in Partials :
        /\ DefinitelyTrue(P)
        /\ \A Q \in Partials : (DefinitelyTrue(Q) /\ Q # P) => DfsBefore(P, Q)

Filled(P) == [v \in 1 .. n_vars |-> IF v <= Len(P) THEN P[v] ELSE FALSE]

---------------------------------------------------------------------------
(* C1 -- Soundness: on a well-formed instance, when sat_bruteforce,        *)
(* sat_backtracking or sat_bestcase returns (True, A), A has exactly the   *)
(* keys 1..n_vars and every clause has a literal that is true under A.     *)
C1_Soundness ==
    \A m \in Strategies :
        (Done(m) /\ result.sat) =>
            /\ result.kind = "ok"
            /\ IsTotal(result.assignment)
            /\ Satisfies(result.assignment)

\* sat_backtracking returned True on an instance with clauses, with a
\* variable set to True and a variable set to False.
C1_Witness ==
    /\ Done("sat_backtracking")
    /\ result.sat
    /\ Len(clauses) >= 2
    /\ \E v \in DOMAIN result.assignment : result.assignment[v]
    /\ \E v \in DOMAIN result.assignment : ~result.assignment[v]

(* C2 -- Completeness of sat_bruteforce and sat_backtracking: on a         *)
(* well-formed instance each returns True exactly when some total          *)
(* assignment satisfies every clause, and returns exactly (False, {})      *)
(* when none does.                                                         *)
C2_Completeness ==
    \A m \in {"sat_bruteforce", "sat_backtracking"} :
        Done(m) =>
            /\ result.kind = "ok"
            /\ Satisfiable => result.sat
            /\ ~Satisfiable => result = Returned(FALSE, EmptyDict)

\* sat_backtracking returned True after the whole subtree with variable 1
\* set to True had failed.
C2_Witness ==
    /\ Done("sat_backtracking")
    /\ n_vars >= 2
    /\ Satisfiable
    /\ result.sat
    /\ ~result.assignment[1]

(* C3 -- Best-case optimality: on a well-formed instance the assignment    *)
(* sat_bestcase returns satisfies as many clauses as the best of the       *)
(* 2^n_vars total assignments does.                                        *)
C3_BestcaseOptimal ==
    Done("sat_bestcase") =>
        /\ IsTotal(result.assignment)
        /\ Score(result.assignment) = MaxScore

(* C4 -- Best-case dominance over all-false: on a well-formed instance     *)
(* sat_bestcase returns, also when it returns False, an assignment with    *)
(* exactly the keys 1..n_vars that satisfies at least as many clauses as   *)
(* the all-False assignment; with n_vars = 0 and a nonempty clause list it *)
(* returns (False, {}), whose score is 0.                                  *)
C4_BestcaseDominatesAllFalse ==
    Done("sat_bestcase") =>
        /\ result.kind = "ok"
        /\ IsTotal(result.assignment)
        /\ Score(result.assignment) >= Score(AllFalse)
        /\ (n_vars = 0 /\ clauses # <<>>) =>
              /\ result = Returned(FALSE, EmptyDict)
              /\ Score(result.assignment) = 0

\* sat_bestcase returned False with a fallback other than the all-False
\* assignment, on an instance where all-False satisfies some clause.
C4_Witness ==
    /\ Done("sat_bestcase")
    /\ ~result.sat
    /\ n_vars = MaxVars
    /\ IsTotal(result.assignment)
    /\ result.assignment # AllFalse
    /\ Score(AllFalse) >= 1

(* C5 -- Brute-force enumeration order: on a satisfiable well-formed       *)
(* instance sat_bruteforce returns the least satisfying total assignment   *)
(* in the order that compares variable 1 first, then 2, ..., with False    *)
(* before True.                                                            *)
C5_BruteforceLexLeast ==
    (Done("sat_bruteforce") /\ Satisfiable) =>
        /\ result.sat
        /\ IsTotal(result.assignment)
        /\ Satisfies(result.assignment)
        /\ \A A \in Total : Satisfies(A) => LexLeq(result.assignment, A)

\* sat_bruteforce returned an assignment other than all-False on an
\* instance with several satisfying assignments.
C5_Witness ==
    /\ Done("sat_bruteforce")
    /\ result.sat
    /\ result.assignment # AllFalse
    /\ Cardinality({ A \in Total : Satisfies(A) }) >= 2

(* C6 -- Malformed input fails fast: when some clause holds a literal 0 or *)
(* a literal whose absolute value exceeds n_vars, each strategy ends in an *)
(* error and never returns an ordinary (satisfiable, assignment) result.   *)
C6_MalformedFailsFast ==
    \A m \in Strategies :
        (Done(m) /\ ~WellFormed(n_vars, clauses)) => result.kind = "KeyError"

(* C7 -- Best-case follows backtracking: on a well-formed instance         *)
(* sat_bestcase, sat_backtracking and sat_bruteforce return True on the    *)
(* same instances (those with a partial assignment under which every       *)
(* clause is definitely true), and sat_bestcase and sat_backtracking then  *)
(* return the same assignment: the first such partial assignment in        *)
(* lowest-index-variable, True-before-False depth-first order, with every  *)
(* unassigned variable set to False.                                       *)
C7_BestcaseFollowsBacktracking ==
    /\ \A m \in Strategies :
        Done(m) => (result.sat <=> \E P \in Partials : DefinitelyTrue(P))
    /\ \A m \in {"sat_backtracking", "sat_bestcase"} :
        (Done(m) /\ result.sat) => result.assignment = Filled(FirstSatisfiedPartial)

\* sat_bestcase returned True from a partial assignment found after a
\* failed True branch and with a variable still unassigned.
C7_Witness ==
    /\ Done("sat_bestcase")
    /\ result.sat
    /\ Len(FirstSatisfiedPartial) < n_vars
    /\ \E v \in 1 .. Len(FirstSatisfiedPartial) : ~FirstSatisfiedPartial[v]

(* C8 -- Best-candidate tracker of sat_bestcase: best_score never          *)
(* decreases; best_assignment changes only in a step in which best_score   *)
(* strictly increases; whenever best_score >= 0, best_assignment is a      *)
(* total assignment over 1..n_vars that satisfies exactly best_score       *)
(* clauses; and the fallback returned on failure is the first candidate,   *)
(* in search order, that reached the highest recorded score.               *)
C8_TrackerStep ==
    /\ best_score' >= best_score
    /\ best_assignment' # best_assignment => best_score' > best_score

C8_TrackerState ==
    best_score >= 0 =>
        /\ IsTotal(best_assignment)
        /\ Score(best_assignment) = best_score

C8_Fallback ==
    (Done("sat_bestcase") /\ ~result.sat) =>
        \E k \in 1 .. Len(candidates) :
            /\ result.assignment = candidates[k]
            /\ \A j \in 1 .. Len(candidates) : Score(candidates[j]) <= Score(candidates[k])
            /\ \A j \in 1 .. (k - 1) : Score(candidates[j]) < Score(candidates[k])

C8_BestCandidateTracker ==
    /\ [][C8_TrackerStep]_vars
    /\ [](C8_TrackerState /\ C8_Fallback)

\* A later candidate reached the best score and did not replace the best
\* assignment.
C8_Witness ==
    /\ call = "sat_bestcase"
    /\ \E j \in 1 .. Len(candidates) :
        /\ Score(candidates[j]) = best_score
        /\ candidates[j] # best_assignment

(* C9 -- Depth-first assign/undo discipline of sat_backtracking and        *)
(* sat_bestcase: at entry to every backtrack call the assigned keys are    *)
(* exactly 1..k for some 0 <= k <= n_vars; a backtrack call that returns   *)
(* failure leaves the shared assignment as it was at entry to that call;   *)
(* the chosen variable's key is removed after a failed True branch before  *)
(* the False branch is tried.                                              *)
C9_Entry ==
    \A m \in {"sat_backtracking", "sat_bestcase"} :
        /\ Running(m) => DOMAIN assignment \subseteq 1 .. n_vars
        /\ AtEnter(m) =>
              /\ Len(stack) - 1 <= n_vars
              /\ DOMAIN assignment = 1 .. (Len(stack) - 1)
              /\ Top.entry = assignment

C9_FailureReturn ==
    ( /\ call \in {"sat_backtracking", "sat_bestcase"}
      /\ Len(stack') = Len(stack) - 1
      /\ ~ret'.sat )
    => assignment' = Top.entry

C9_UndoBeforeFalse ==
    ( /\ call \in {"sat_backtracking", "sat_bestcase"}
      /\ Len(stack') = Len(stack) + 1
      /\ stack'[Len(stack)].pc = "callF" )
    => /\ Top.pc = "undoT"
       /\ Top.var \notin DOMAIN assignment
       /\ assignment = Top.entry

C9_AssignUndoDiscipline ==
    /\ []C9_Entry
    /\ [][C9_FailureReturn /\ C9_UndoBeforeFalse]_vars

\* A nested backtrack call of sat_backtracking has undone both branches
\* and is about to return failure.
C9_Witness ==
    /\ Running("sat_backtracking")
    /\ Len(stack) >= 2
    /\ Top.pc = "undoF"
    /\ assignment = Top.entry
    /\ assignment # EmptyDict

(* C10 -- Termination and depth bound: on a well-formed instance each of   *)
(* the three strategies eventually returns; never more than n_vars         *)
(* variables are assigned and the recursion never nests deeper than        *)
(* n_vars assignments; sat_bruteforce evaluates the clause set at no more  *)
(* than 2^n_vars complete assignments.                                     *)
C10_DepthBound ==
    /\ Cardinality(DOMAIN assignment) <= n_vars
    /\ Len(stack) <= n_vars + 1
    /\ leaves <= Pow2(n_vars)

\* A behaviour calls one of the three strategies, whichever it is; result
\* is set when that call returns.
C10_TerminationAndDepth ==
    /\ <>(result # NoValue)
    /\ []C10_DepthBound

\* sat_bruteforce returned after evaluating all 2^n_vars complete
\* assignments.
C10_Witness ==
    /\ Done("sat_bruteforce")
    /\ n_vars = MaxVars
    /\ leaves = Pow2(n_vars)

=============================================================================
